---- MODULE Spec2Model ----
(***************************************************************************)
(* A model of the Wordle game of src/src/main.rs: the feedback algorithm   *)
(* (provide_feedback), the hard-mode validator (is_valid_hard_mode_guess), *)
(* the round and session loop of main, and the statistics of GameState.    *)
(*                                                                         *)
(* A character is a one-character string, a Rust String or Vec<char> is a  *)
(* sequence of characters.  Rust indexes from 0, the model from 1.         *)
(* A line read from stdin is modelled after its trim().to_uppercase().     *)
(***************************************************************************)
EXTENDS Integers, Sequences, FiniteSets, TLC

\* ------------------------------------------------------------------ bounds
\* Number of letters of FbAlphabet the feedback inputs are built from.
NLetters == 3
\* Largest count of a word in the tallies print_stats is applied to.
MaxCount == 2
\* A further round is started only while the session has accepted at most
\* MaxCarried guesses (a round itself always runs to its end, so a session has
\* at most MaxCarried + 1 rounds, the earlier ones won within MaxCarried
\* guesses in all).
MaxCarried == 2

\* ------------------------------------------------------ program constants
\* const MAX_ATTEMPTS: usize = 6
MAX_ATTEMPTS == 6
\* vec!['_'; 5]: the length of a word
WORD_LEN == 5
\* sorted_words.iter().take(5)
TOP_WORDS == 5

\* --------------------------------------------------------------- characters
Alphabet ==
    << "A", "B", "C", "D", "E", "F", "G", "H", "I", "J", "K", "L", "M",
       "N", "O", "P", "Q", "R", "S", "T", "U", "V", "W", "X", "Y", "Z" >>

\* The code point order of the upper-case letters (char::cmp).
Ord(c) == CHOOSE i \in 1..Len(Alphabet) : Alphabet[i] = c

ALLOY == << "A", "L", "L", "O", "Y" >>
LLAMA == << "L", "L", "A", "M", "A" >>
CRANE == << "C", "R", "A", "N", "E" >>
BRAVE == << "B", "R", "A", "V", "E" >>
SNAKE == << "S", "N", "A", "K", "E" >>
ERASE == << "E", "R", "A", "S", "E" >>
STARE == << "S", "T", "A", "R", "E" >>
XXXXX == << "X", "X", "X", "X", "X" >>
CAT == << "C", "A", "T" >>
BRAVES == << "B", "R", "A", "V", "E", "S" >>

\* builtin_words::ACCEPTABLE, upper-cased (acceptable_set): a few of its words,
\* chosen so that in hard mode a guess can follow another one (STARE then
\* ERASE against CRANE) and can be rejected for either reason.
ACCEPTABLE == { CRANE, STARE, ERASE }

\* builtin_words::FINAL, upper-cased (final_set): the possible random answers.
FINAL == { CRANE, STARE }

Range(s) == { s[i] : i \in 1..Len(s) }

\* str::contains(char) and slice::contains
contains(s, c) == \E i \in 1..Len(s) : s[i] = c

\* Iterator::position: the index of the first element equal to c
position(s, c) == CHOOSE i \in 1..Len(s) : s[i] = c /\ \A j \in 1..(i - 1) : s[j] # c

\* ------------------------------------------------------- provide_feedback
ESC == "ESC"

\* format!("{}", style(c).green()) and its yellow and red siblings: the ANSI
\* colour sequence ESC [ 3 n m, the character, and the reset ESC [ 0 m.
styled(c, colour) == << ESC, "[", "3", colour, "m", c, ESC, "[", "0", "m" >>

green(c) == styled(c, "2")
yellow(c) == styled(c, "3")
red(c) == styled(c, "1")

\* String::replace_range(i..=i, with), i counted from 0 in the code and from 1
\* here; all characters are ASCII, so byte and character offsets agree.
replace_range(s, i, with) == SubSeq(s, 1, i - 1) \o with \o SubSeq(s, i + 1, Len(s))

\* feedback.chars().nth(i): "None" past the end.
nth(s, i) == IF i <= Len(s) THEN s[i] ELSE "None"

\* Variant of consume: the matched character is left in place.
consume_none(answer_chars, pos) == answer_chars

\* answer_chars[pos] = '_'
consume(answer_chars, pos) == [answer_chars EXCEPT ![pos] = "_"]

\* First pass (green).  The state of the loop is [feedback, answer_chars];
\* answer_chars[i] panics (index out of bounds) when the guess is longer than
\* the answer, which the field panicked records.
RECURSIVE first_pass(_, _, _, _, _)
first_pass(i, guess_chars, answer_chars, feedback, is_tty) ==
    IF i > Len(guess_chars)
    THEN [panicked |-> FALSE, feedback |-> feedback, answer_chars |-> answer_chars]
    ELSE IF i > Len(answer_chars)
    THEN [panicked |-> TRUE, feedback |-> feedback, answer_chars |-> answer_chars]
    ELSE IF answer_chars[i] = guess_chars[i]
    THEN first_pass(i + 1, guess_chars, consume(answer_chars, i),
                    feedback \o (IF is_tty THEN green(guess_chars[i]) ELSE << "G" >>),
                    is_tty)
    ELSE first_pass(i + 1, guess_chars, answer_chars, feedback \o << "_" >>, is_tty)

\* Second pass (yellow, red) over the placeholders of the first.
RECURSIVE second_pass(_, _, _, _, _)
second_pass(i, guess_chars, answer_chars, feedback, is_tty) ==
    IF i > Len(guess_chars)
    THEN feedback
    ELSE IF nth(feedback, i) = "_"
    THEN IF contains(answer_chars, guess_chars[i])
         THEN second_pass(i + 1, guess_chars,
                          consume(answer_chars, position(answer_chars, guess_chars[i])),
                          replace_range(feedback, i,
                              IF is_tty THEN yellow(guess_chars[i]) ELSE << "Y" >>),
                          is_tty)
         ELSE second_pass(i + 1, guess_chars, answer_chars,
                          replace_range(feedback, i,
                              IF is_tty THEN red(guess_chars[i]) ELSE << "R" >>),
                          is_tty)
    ELSE second_pass(i + 1, guess_chars, answer_chars, feedback, is_tty)

\* Variant of provide_feedback: the second pass searches the whole answer.
provide_feedback_unconsumed(guess, answer, is_tty) ==
    LET p1 == first_pass(1, guess, answer, << >>, is_tty)
    IN  IF p1.panicked
        THEN [panicked |-> TRUE, feedback |-> << >>]
        ELSE [panicked |-> FALSE,
              feedback |-> second_pass(1, guess, answer, p1.feedback, is_tty)]

\* The result is [panicked, feedback]: the returned String, or the abort.
provide_feedback(guess, answer, is_tty) ==
    LET p1 == first_pass(1, guess, answer, << >>, is_tty)
    IN  IF p1.panicked
        THEN [panicked |-> TRUE, feedback |-> << >>]
        ELSE [panicked |-> FALSE,
              feedback |-> second_pass(1, guess, p1.answer_chars, p1.feedback, is_tty)]

\* ---------------------------------------------- is_valid_hard_mode_guess
\* Variant of positions_kept: the pinned positions are not looked at.
positions_unchecked(guess, correct_positions) == TRUE

\* The first loop: no pinned position holds another letter.  correct_positions
\* has 5 slots; correct_positions[i] is only read for the guess's positions.
positions_kept(guess, correct_positions) ==
    \A i \in 1..Len(guess) :
        ~(correct_positions[i] # "_" /\ correct_positions[i] # guess[i])

\* Variant of letters_kept: the present letters are not looked at.
letters_unchecked(guess, present_letters) == TRUE

\* The second loop: every present letter occurs in the guess.
letters_kept(guess, present_letters) ==
    \A c \in present_letters : contains(guess, c)

is_valid_hard_mode_guess(guess, correct_positions, present_letters) ==
    /\ positions_kept(guess, correct_positions)
    /\ letters_kept(guess, present_letters)

\* Variant of update_hard_mode: the present letters of the guess replace the
\* set (it is emptied at the first position) instead of joining it.
RECURSIVE update_hard_mode_replacing(_, _, _, _, _)
update_hard_mode_replacing(i, guess, answer, correct_positions, present_letters) ==
    IF i > Len(guess)
    THEN [correct_positions |-> correct_positions, present_letters |-> present_letters]
    ELSE LET kept == IF i = 1 THEN {} ELSE present_letters
         IN  IF nth(answer, i) = guess[i]
             THEN update_hard_mode_replacing(i + 1, guess, answer,
                      [correct_positions EXCEPT ![i] = guess[i]], kept)
             ELSE IF contains(answer, guess[i])
             THEN update_hard_mode_replacing(i + 1, guess, answer,
                      correct_positions, kept \cup { guess[i] })
             ELSE update_hard_mode_replacing(i + 1, guess, answer,
                      correct_positions, kept)

\* Variant of update_hard_mode: a letter of the answer is pinned where the
\* guess has it, a letter in its place joins the present letters.
RECURSIVE update_hard_mode_swapped(_, _, _, _, _)
update_hard_mode_swapped(i, guess, answer, correct_positions, present_letters) ==
    IF i > Len(guess)
    THEN [correct_positions |-> correct_positions, present_letters |-> present_letters]
    ELSE IF nth(answer, i) = guess[i]
    THEN update_hard_mode_swapped(i + 1, guess, answer,
             correct_positions, present_letters \cup { guess[i] })
    ELSE IF contains(answer, guess[i])
    THEN update_hard_mode_swapped(i + 1, guess, answer,
             [correct_positions EXCEPT ![i] = guess[i]], present_letters)
    ELSE update_hard_mode_swapped(i + 1, guess, answer,
             correct_positions, present_letters)

\* The update of main, lines 243-251, applied to every position of the guess.
RECURSIVE update_hard_mode(_, _, _, _, _)
update_hard_mode(i, guess, answer, correct_positions, present_letters) ==
    IF i > Len(guess)
    THEN [correct_positions |-> correct_positions, present_letters |-> present_letters]
    ELSE IF nth(answer, i) = guess[i]
    THEN update_hard_mode(i + 1, guess, answer,
                          [correct_positions EXCEPT ![i] = guess[i]], present_letters)
    ELSE IF contains(answer, guess[i])
    THEN update_hard_mode(i + 1, guess, answer,
                          correct_positions, present_letters \cup { guess[i] })
    ELSE update_hard_mode(i + 1, guess, answer, correct_positions, present_letters)

\* --------------------------------------------------------------- GameState
\* used_words is a function from the words of the map to their counts.
GameState_new ==
    [total_rounds |-> 0, successful_games |-> 0, attempts |-> 0,
     used_words |-> [w \in {} |-> 0]]

\* Variant of add_word: the word is entered with the count 1, used before or
\* not.
add_word_once(used_words, word) ==
    [w \in DOMAIN used_words \cup { word } |->
        IF w = word THEN 1 ELSE used_words[w]]

\* *self.used_words.entry(word).or_insert(0) += 1
add_word(used_words, word) ==
    IF word \in DOMAIN used_words
    THEN [used_words EXCEPT ![word] = @ + 1]
    ELSE [w \in DOMAIN used_words \cup { word } |->
             IF w = word THEN 1 ELSE used_words[w]]

\* usize::cmp
cmp_usize(a, b) == IF a < b THEN "Less" ELSE IF a > b THEN "Greater" ELSE "Equal"

\* String::cmp: lexicographic by code point, a proper prefix being less.
RECURSIVE cmp_str_from(_, _, _)
cmp_str_from(i, a, b) ==
    IF i > Len(a) /\ i > Len(b) THEN "Equal"
    ELSE IF i > Len(a) THEN "Less"
    ELSE IF i > Len(b) THEN "Greater"
    ELSE IF Ord(a[i]) < Ord(b[i]) THEN "Less"
    ELSE IF Ord(a[i]) > Ord(b[i]) THEN "Greater"
    ELSE cmp_str_from(i + 1, a, b)

cmp_str(a, b) == cmp_str_from(1, a, b)

\* An entry of used_words is << word, count >>.
\* Variant of sort_cmp: no then_with.
sort_cmp_count_only(a, b) == cmp_usize(b[2], a[2])

\* Variant of sort_cmp: ties go to the later word, b.0.cmp(a.0).
sort_cmp_word_descending(a, b) ==
    LET c == cmp_usize(b[2], a[2])
    IN  IF c # "Equal" THEN c ELSE cmp_str(b[1], a[1])

\* |a, b| b.1.cmp(a.1).then_with(|| a.0.cmp(b.0))
sort_cmp(a, b) ==
    LET c == cmp_usize(b[2], a[2])
    IN  IF c # "Equal" THEN c ELSE cmp_str(a[1], b[1])

\* sort_by is a stable sort: an insertion sort, each entry going after the
\* entries that do not compare greater than it.
RECURSIVE insert_sorted(_, _)
insert_sorted(sorted, x) ==
    IF sorted = << >> THEN << x >>
    ELSE IF sort_cmp(x, Head(sorted)) = "Less"
    THEN << x >> \o sorted
    ELSE << Head(sorted) >> \o insert_sorted(Tail(sorted), x)

RECURSIVE sort_by(_)
sort_by(entries) ==
    IF entries = << >> THEN << >>
    ELSE insert_sorted(sort_by(SubSeq(entries, 1, Len(entries) - 1)),
                       entries[Len(entries)])

\* Iterator::take
take(s, n) == IF Len(s) <= n THEN s ELSE SubSeq(s, 1, n)

RECURSIVE Permutations_of(_)
Permutations_of(S) ==
    IF S = {} THEN { << >> }
    ELSE UNION { { << x >> \o p : p \in Permutations_of(S \ { x }) } : x \in S }

\* The orders in which a HashMap may iterate over its keys: all of them.
IterOrders(used_words) == Permutations_of(DOMAIN used_words)

\* The "Most frequently used words" lines of print_stats, for the iteration
\* order iter of used_words.
print_stats(used_words, iter) ==
    take(sort_by([i \in 1..Len(iter) |-> << iter[i], used_words[iter[i]] >>]),
         TOP_WORDS)

\* ---------------------------------------------------------- the state file
\* A state file is missing, unparsable, or a JSON record of the four fields.
\* The field state of an unparsable file is what its text holds short of the
\* four fields (here counters without used_words), which load never returns.
FileMissing == [kind |-> "missing", state |-> GameState_new]
FileCorrupt ==
    [kind |-> "corrupt",
     state |-> [GameState_new EXCEPT !.total_rounds = 3, !.successful_games = 1,
                                     !.attempts = 4]]
FileJson(st) == [kind |-> "json", state |-> st]

\* GameState::load: Err unless the file opens and parses.
load(f) == [ok |-> f.kind = "json", state |-> f.state]

\* Variant of load_or_new: whatever the file holds is taken, parsed or not.
load_or_new_lenient(f) == IF f.kind = "missing" THEN GameState_new ELSE f.state

\* GameState::load(state_file).unwrap_or_else(|_| GameState::new())
load_or_new(f) == IF load(f).ok THEN load(f).state ELSE GameState_new

\* GameState::save: the file then holds the state.
save(st) == FileJson(st)

\* ------------------------------------------------------------- the session
VARIABLES
    file,               \* the state file on disk
    mode,               \* "random" (-r), "word" (-w) or "manual" (neither)
    word,               \* the -w word, upper-cased
    is_tty,             \* atty::is(Stdout)
    pc,                 \* where main is: "loop", "answer", "difficulty", "guess",
                        \* "again", "done"
    game_state,         \* the GameState of main
    answer,             \* the answer of the round
    hard_mode,          \* the reply to the hard-mode prompt
    attempts,           \* the attempts of the round
    correct_positions,  \* the pinned letters of the round, '_' where unknown
    present_letters,    \* the present letters of the round
    out,                \* the last message printed
    \* history of the session, kept to state the properties
    loaded,             \* game_state as it was after loading
    confirmed,          \* the number of answers confirmed so far
    seen_correct,       \* the letters scored Correct in the round, by position
    seen_present,       \* the letters scored Present in the round
    matched,            \* whether an accepted guess of the round was the answer
    outcomes,           \* the outcomes printed in the round, in order
    carried,            \* whether the round before had left pinned or present
                        \* letters when this round began
    \* provide_feedback on its own: its arguments, its result, whether it ran
    fb_guess, fb_answer, fb_tty, fb_result, fb_done,
    \* print_stats on its own: the map, its iteration order, the lines printed
    st_used_words, st_iter, st_listing, st_done

game_vars ==
    << file, mode, word, is_tty, pc, game_state, answer, hard_mode, attempts,
       correct_positions, present_letters, out, loaded, confirmed, seen_correct,
       seen_present, matched, outcomes, carried >>

fb_vars == << fb_guess, fb_answer, fb_tty, fb_result, fb_done >>

st_vars == << st_used_words, st_iter, st_listing, st_done >>

vars == << game_vars, fb_vars, st_vars >>

NoWord == << >>
NoOut == [kind |-> "none", guess |-> NoWord, text |-> << >>]
Unknown == [i \in 1..WORD_LEN |-> "_"]

\* A state file an earlier session saved, and one edited by hand.
FileSaved ==
    FileJson([total_rounds |-> 1, successful_games |-> 1, attempts |-> 1,
              used_words |-> [w \in { CRANE } |-> 1]])

FileEdited ==
    FileJson([total_rounds |-> 0, successful_games |-> 5, attempts |-> 0,
              used_words |-> [w \in {} |-> 0]])

StateFiles == { FileMissing, FileCorrupt, FileSaved, FileEdited }

\* The lines a player may type where a word is expected.
WordInputs == ACCEPTABLE \cup { XXXXX, CAT }

\* The -w words of the sessions modelled.
ConfiguredWords == { CRANE, XXXXX }

FbIdle ==
    /\ fb_guess = NoWord /\ fb_answer = NoWord /\ fb_tty = FALSE
    /\ fb_result = [panicked |-> FALSE, feedback |-> << >>]
    /\ fb_done = FALSE

StIdle ==
    /\ st_used_words = GameState_new.used_words /\ st_iter = << >>
    /\ st_listing = << >> /\ st_done = FALSE

GameIdle ==
    /\ file = FileMissing /\ mode = "manual" /\ word = NoWord /\ is_tty = FALSE
    /\ pc = "idle" /\ game_state = GameState_new /\ answer = NoWord
    /\ hard_mode = FALSE /\ attempts = 0 /\ correct_positions = Unknown
    /\ present_letters = {} /\ out = NoOut /\ loaded = GameState_new
    /\ confirmed = 0 /\ seen_correct = Unknown /\ seen_present = {}
    /\ matched = FALSE /\ outcomes = << >> /\ carried = FALSE

\* main up to the loop: the arguments, the terminal, the state file loaded.
Init ==
    /\ file \in StateFiles
    /\ mode \in { "random", "word", "manual" }
    /\ word \in (IF mode = "word" THEN ConfiguredWords ELSE { NoWord })
    /\ is_tty \in BOOLEAN
    /\ pc = "loop"
    /\ game_state = load_or_new(file)
    /\ loaded = game_state
    /\ answer = NoWord /\ hard_mode = FALSE /\ attempts = 0
    /\ correct_positions = Unknown /\ present_letters = {}
    /\ out = NoOut /\ confirmed = 0
    /\ seen_correct = Unknown /\ seen_present = {}
    /\ matched = FALSE /\ outcomes = << >> /\ carried = FALSE
    /\ FbIdle /\ StIdle

round_vars == << answer, hard_mode, attempts, correct_positions, present_letters >>
round_history == << seen_correct, seen_present, matched, outcomes, carried >>
config_vars == << mode, word, is_tty, loaded >>

\* game_state.total_rounds += 1, at the head of the loop.
BeginRound ==
    /\ pc = "loop"
    /\ game_state' = [game_state EXCEPT !.total_rounds = @ + 1]
    /\ pc' = "answer"
    /\ UNCHANGED << file, config_vars, round_vars, round_history, out, confirmed,
                    fb_vars, st_vars >>

\* The words the answer of a round may be, by mode: a random word of FINAL, the
\* -w word, or the line read.
AnswerChoices ==
    IF mode = "random" THEN FINAL
    ELSE IF mode = "word" THEN { word }
    ELSE WordInputs

\* Variant of take_back: the round stays counted.
take_back_forgotten(st) == st

\* game_state.total_rounds -= 1
take_back(st) == [st EXCEPT !.total_rounds = @ - 1]

\* The answer is not in acceptable_set: the round is taken back, and the loop
\* continues.
RejectAnswer(w) ==
    /\ pc = "answer"
    /\ w \notin ACCEPTABLE
    /\ out' = [kind |-> "invalid answer", guess |-> NoWord, text |-> w]
    /\ game_state' = take_back(game_state)
    /\ pc' = "loop"
    /\ UNCHANGED << file, config_vars, round_vars, round_history, confirmed,
                    fb_vars, st_vars >>

ConfirmAnswer(w) ==
    /\ pc = "answer"
    /\ w \in ACCEPTABLE
    /\ answer' = w
    /\ out' = [kind |-> "hard mode prompt", guess |-> NoWord, text |-> w]
    /\ confirmed' = confirmed + 1
    /\ pc' = "difficulty"
    /\ UNCHANGED << file, config_vars, game_state, hard_mode, attempts,
                    correct_positions, present_letters, round_history,
                    fb_vars, st_vars >>

\* Variant of ReadDifficulty: correct_positions and present_letters are not
\* made anew for the round.
ReadDifficulty_keeping(reply) ==
    /\ pc = "difficulty"
    /\ hard_mode' = reply
    /\ attempts' = 0
    /\ UNCHANGED << correct_positions, present_letters >>
    /\ seen_correct' = Unknown /\ seen_present' = {}
    /\ matched' = FALSE /\ outcomes' = << >>
    /\ carried' = (correct_positions # Unknown \/ present_letters # {})
    /\ out' = [kind |-> "guess prompt", guess |-> NoWord, text |-> << >>]
    /\ pc' = "guess"
    /\ UNCHANGED << file, config_vars, game_state, answer, confirmed,
                    fb_vars, st_vars >>

\* The reply to the hard-mode prompt, then the variables of the round.
ReadDifficulty(reply) ==
    /\ pc = "difficulty"
    /\ hard_mode' = reply
    /\ attempts' = 0
    /\ correct_positions' = Unknown
    /\ present_letters' = {}
    /\ seen_correct' = Unknown /\ seen_present' = {}
    /\ matched' = FALSE /\ outcomes' = << >>
    /\ carried' = (correct_positions # Unknown \/ present_letters # {})
    /\ out' = [kind |-> "guess prompt", guess |-> NoWord, text |-> << >>]
    /\ pc' = "guess"
    /\ UNCHANGED << file, config_vars, game_state, answer, confirmed,
                    fb_vars, st_vars >>

\* Variant of unacceptable: only the length of the guess is tested.
unacceptable_length(guess) == Len(guess) # WORD_LEN

\* !acceptable_set.contains(&guess)
unacceptable(guess) == guess \notin ACCEPTABLE

\* hard_mode && !is_valid_hard_mode_guess(..)
breaks_hard_mode(guess) ==
    hard_mode /\ ~is_valid_hard_mode_guess(guess, correct_positions, present_letters)

RejectGuess(g) ==
    /\ pc = "guess"
    /\ unacceptable(g)
    /\ out' = [kind |-> "invalid guess", guess |-> g, text |-> << >>]
    /\ UNCHANGED << file, config_vars, pc, game_state, round_vars, round_history,
                    confirmed, fb_vars, st_vars >>

RejectHardGuess(g) ==
    /\ pc = "guess"
    /\ ~unacceptable(g)
    /\ breaks_hard_mode(g)
    /\ out' = [kind |-> "invalid hard mode guess", guess |-> g, text |-> << >>]
    /\ UNCHANGED << file, config_vars, pc, game_state, round_vars, round_history,
                    confirmed, fb_vars, st_vars >>

\* game_state.attempts += 1; game_state.add_word(&guess); and, when the guess
\* is the answer, game_state.successful_games += 1.
record_guess(st, g, ans) ==
    [st EXCEPT !.attempts = @ + 1,
               !.used_words = add_word(@, g),
               !.successful_games = IF g = ans THEN @ + 1 ELSE @]

\* Variant of printed_outcome: the last attempt is tested before the match.
printed_outcome_last_first(g, ans, n) ==
    IF n = MAX_ATTEMPTS THEN << "Lost" >>
    ELSE IF g = ans THEN << "Won" >>
    ELSE << >>

\* What the round prints about its end after the n-th accepted guess g: the
\* congratulation and the break come before the test of the last attempt.
printed_outcome(g, ans, n) ==
    IF g = ans THEN << "Won" >>
    ELSE IF n = MAX_ATTEMPTS THEN << "Lost" >>
    ELSE << >>

\* Variant of round_goes_on: the loop is left one attempt later.
round_goes_on_one_more(g, ans, n) == g # ans /\ n <= MAX_ATTEMPTS

\* No break, and the condition of the while loop holds.
round_goes_on(g, ans, n) == g # ans /\ n < MAX_ATTEMPTS

\* The verdicts of a guess: the feedback as printed when not on a terminal.
Verdicts(g, ans) == provide_feedback(g, ans, FALSE).feedback

\* An accepted guess: feedback, counters, win, hard-mode update, last attempt.
AcceptGuess(g) ==
    /\ pc = "guess"
    /\ ~unacceptable(g)
    /\ ~breaks_hard_mode(g)
    /\ out' = [kind |-> "feedback", guess |-> g,
               text |-> provide_feedback(g, answer, is_tty).feedback]
    /\ attempts' = attempts + 1
    /\ game_state' = record_guess(game_state, g, answer)
    /\ seen_correct' = [i \in 1..WORD_LEN |->
                          IF Verdicts(g, answer)[i] = "G" THEN g[i] ELSE seen_correct[i]]
    /\ seen_present' = seen_present \cup
                          { g[i] : i \in { j \in 1..WORD_LEN : Verdicts(g, answer)[j] = "Y" } }
    /\ matched' = (matched \/ g = answer)
    /\ outcomes' = outcomes \o printed_outcome(g, answer, attempts')
    /\ pc' = IF round_goes_on(g, answer, attempts') THEN "guess" ELSE "again"
    /\ LET u == update_hard_mode(1, g, answer, correct_positions, present_letters)
       IN  IF g # answer /\ hard_mode
           THEN /\ correct_positions' = u.correct_positions
                /\ present_letters' = u.present_letters
           ELSE UNCHANGED << correct_positions, present_letters >>
    /\ UNCHANGED << file, config_vars, answer, hard_mode, confirmed, carried,
                    fb_vars, st_vars >>

\* "y" to another round.
PlayAgain ==
    /\ pc = "again"
    /\ game_state.attempts - loaded.attempts <= MaxCarried
    /\ out' = [kind |-> "again", guess |-> NoWord, text |-> << >>]
    /\ pc' = "loop"
    /\ UNCHANGED << file, config_vars, game_state, round_vars, round_history,
                    confirmed, fb_vars, st_vars >>

\* Any other reply: the statistics are printed and the state is saved.
Finish(iter) ==
    /\ pc = "again"
    /\ out' = [kind |-> "stats", guess |-> NoWord,
               text |-> print_stats(game_state.used_words, iter)]
    /\ file' = save(game_state)
    /\ pc' = "done"
    /\ UNCHANGED << config_vars, game_state, round_vars, round_history, confirmed,
                    fb_vars, st_vars >>

Next ==
    \/ BeginRound
    \/ \E w \in AnswerChoices : RejectAnswer(w)
    \/ \E w \in AnswerChoices : ConfirmAnswer(w)
    \/ \E reply \in BOOLEAN : ReadDifficulty(reply)
    \/ \E g \in WordInputs : RejectGuess(g)
    \/ \E g \in WordInputs : RejectHardGuess(g)
    \/ \E g \in WordInputs : AcceptGuess(g)
    \/ PlayAgain
    \/ \E iter \in IterOrders(game_state.used_words) : Finish(iter)

Spec == Init /\ [][Next]_vars

\* The session with a program that keeps running and a player who answers:
\* the loop and the validation of the answer go on, a prompted answer is
\* acceptable again and again, the hard-mode prompt is answered, acceptable
\* guesses keep coming, and the play-again prompt is declined at last.
Fairness ==
    /\ WF_vars(BeginRound)
    /\ WF_vars(\E w \in AnswerChoices : RejectAnswer(w) \/ ConfirmAnswer(w))
    /\ SF_vars(\E w \in AnswerChoices : ConfirmAnswer(w))
    /\ WF_vars(\E reply \in BOOLEAN : ReadDifficulty(reply))
    /\ SF_vars(\E g \in WordInputs : AcceptGuess(g))
    /\ SF_vars(\E iter \in IterOrders(game_state.used_words) : Finish(iter))

SpecFair == Spec /\ Fairness

\* ------------------------------------------------ provide_feedback alone
FbAlphabet == << "A", "L", "M", "O", "Y" >>

FbLetters == { FbAlphabet[i] : i \in 1..NLetters }

\* The words provide_feedback is applied to: every word of WORD_LEN letters of
\* FbLetters, the words of the game, and a shorter and a longer word.
FbWords ==
    [1..WORD_LEN -> FbLetters] \cup { ALLOY, LLAMA, CRANE, SNAKE, ERASE, CAT, BRAVES }

FbInit ==
    /\ fb_guess \in FbWords
    /\ fb_answer \in FbWords
    /\ fb_tty \in BOOLEAN
    /\ fb_result = [panicked |-> FALSE, feedback |-> << >>]
    /\ fb_done = FALSE
    /\ GameIdle /\ StIdle

FbScore ==
    /\ ~fb_done
    /\ fb_result' = provide_feedback(fb_guess, fb_answer, fb_tty)
    /\ fb_done' = TRUE
    /\ UNCHANGED << fb_guess, fb_answer, fb_tty, game_vars, st_vars >>

FbNext == FbScore

SpecFeedback == FbInit /\ [][FbNext]_vars

\* ------------------------------------------------------- print_stats alone
StatWords == { ALLOY, BRAVE, CRANE, ERASE, LLAMA, SNAKE }

\* The used_words of the example: CRANE 3, BRAVE 3, SNAKE 1.
TallyExample ==
    [w \in { CRANE, BRAVE, SNAKE } |-> IF w = SNAKE THEN 1 ELSE 3]

\* Every map from some of StatWords to counts of 1..MaxCount, and the example.
StTallies ==
    UNION { [keys -> 1..MaxCount] : keys \in SUBSET StatWords } \cup { TallyExample }

StInit ==
    /\ st_used_words \in StTallies
    /\ st_iter \in IterOrders(st_used_words)
    /\ st_listing = << >>
    /\ st_done = FALSE
    /\ GameIdle /\ FbIdle

StPrint ==
    /\ ~st_done
    /\ st_listing' = print_stats(st_used_words, st_iter)
    /\ st_done' = TRUE
    /\ UNCHANGED << st_used_words, st_iter, game_vars, fb_vars >>

StNext == StPrint

SpecStats == StInit /\ [][StNext]_vars

\* ================================================================ claims

\* The two-pass reference of the feedback, over the set `used` of the answer
\* positions consumed so far: a position whose letters agree is Correct; any
\* other position, scanned left to right, is Present when its letter stands at
\* an unconsumed position of the answer, whose leftmost such position it then
\* consumes, and Absent otherwise.
RECURSIVE RefScan(_, _, _, _)
RefScan(i, g, a, used) ==
    IF i > Len(g) THEN << >>
    ELSE IF g[i] = a[i] THEN << "Correct" >> \o RefScan(i + 1, g, a, used)
    ELSE LET free == { k \in (1..Len(a)) \ used : a[k] = g[i] }
         IN  IF free = {}
             THEN << "Absent" >> \o RefScan(i + 1, g, a, used)
             ELSE << "Present" >> \o
                  RefScan(i + 1, g, a,
                          used \cup { CHOOSE k \in free : \A m \in free : k <= m })

RefVerdicts(g, a) == RefScan(1, g, a, { k \in 1..Len(a) : g[k] = a[k] })

Symbol(v) == IF v = "Correct" THEN "G" ELSE IF v = "Present" THEN "Y" ELSE "R"

FbPlain5 ==
    /\ fb_done /\ ~fb_tty
    /\ Len(fb_guess) = WORD_LEN /\ Len(fb_answer) = WORD_LEN

\* C1: for a guess and an answer of 5 letters the non-interactive result of
\* provide_feedback has one verdict per position of the guess and is the
\* two-pass reference; LLAMA against ALLOY gives Present, Correct, Present,
\* Absent, Absent.
C1_FeedbackIsTwoPass ==
    FbPlain5 =>
        /\ ~fb_result.panicked
        /\ Len(fb_result.feedback) = WORD_LEN
        /\ \A i \in 1..WORD_LEN :
              fb_result.feedback[i] = Symbol(RefVerdicts(fb_guess, fb_answer)[i])
        /\ (fb_guess = LLAMA /\ fb_answer = ALLOY
              => fb_result.feedback = << "Y", "G", "Y", "R", "R" >>)

C1_Witness ==
    /\ FbPlain5 /\ fb_guess = LLAMA /\ fb_answer = ALLOY
    /\ fb_result.feedback = << "Y", "G", "Y", "R", "R" >>

Count(s, x) == Cardinality({ i \in 1..Len(s) : s[i] = x })

Marked(x, mark) ==
    Cardinality({ i \in 1..Len(fb_guess) :
                    fb_guess[i] = x /\ fb_result.feedback[i] = mark })

\* C2: for every letter x the positions of the guess marked Present with x are
\* at most the occurrences of x in the answer less the positions where x is
\* marked Correct; when the guess has more copies of x than the answer, as many
\* as the answer has are marked Correct or Present and the others are Absent.
C2_PresentBounded ==
    FbPlain5 =>
        \A x \in Range(fb_guess) :
            /\ Marked(x, "Y") <= Count(fb_answer, x) - Marked(x, "G")
            /\ Count(fb_guess, x) > Count(fb_answer, x) =>
                  /\ Marked(x, "G") + Marked(x, "Y") = Count(fb_answer, x)
                  /\ Marked(x, "R") = Count(fb_guess, x) - Count(fb_answer, x)

C2_Witness ==
    /\ FbPlain5 /\ fb_guess = ERASE /\ fb_answer = CRANE
    /\ Marked("E", "G") = 1 /\ Marked("E", "Y") = 0 /\ Marked("E", "R") = 1

Rejections == { "invalid guess", "invalid hard mode guess" }

\* The guess g puts another letter where the round scored a letter Correct.
MovesCorrect(g) ==
    \E i \in 1..WORD_LEN :
        seen_correct[i] # "_" /\ (i > Len(g) \/ g[i] # seen_correct[i])

\* The guess g lacks a letter the round scored Present.
DropsPresent(g) == \E x \in seen_present : ~contains(g, x)

\* C3: in a hard-mode round, a guess that has another letter at a position an
\* accepted guess of the round had scored Correct is rejected: no feedback is
\* given and no attempt is consumed, at every later attempt of the round.
C3_PinnedPositionKept ==
    [][(pc = "guess" /\ hard_mode /\ MovesCorrect(out'.guess))
          => (out'.kind \in Rejections /\ attempts' = attempts /\ pc' = "guess")]_vars

C3_Witness ==
    /\ pc = "guess" /\ hard_mode /\ attempts = MAX_ATTEMPTS - 1
    /\ out.kind = "invalid hard mode guess"
    /\ out.guess \in ACCEPTABLE
    /\ MovesCorrect(out.guess)

\* C4: in a hard-mode round, a guess without a letter that an accepted guess of
\* the round had scored Present is rejected; and a guess is rejected by hard
\* mode only for that or for moving a Correct letter, never for where it puts
\* a Present letter.
C4_PresentLetterKept ==
    [][/\ (pc = "guess" /\ hard_mode /\ DropsPresent(out'.guess))
            => (out'.kind \in Rejections /\ attempts' = attempts /\ pc' = "guess")
       /\ (pc = "guess" /\ out'.kind = "invalid hard mode guess")
            => (hard_mode /\ (MovesCorrect(out'.guess) \/ DropsPresent(out'.guess)))
       /\ (pc = "guess" /\ hard_mode /\ out'.guess \in ACCEPTABLE
             /\ ~MovesCorrect(out'.guess) /\ ~DropsPresent(out'.guess))
            => out'.kind = "feedback"]_vars

C4_Witness ==
    /\ pc = "guess" /\ hard_mode
    /\ out.kind = "invalid hard mode guess"
    /\ ~MovesCorrect(out.guess) /\ DropsPresent(out.guess)

\* C5: the attempts of a round never exceed 6; while guesses are read no
\* outcome has been printed and no accepted guess was the answer; once the round
\* is over exactly one outcome has been printed, Won when the last accepted
\* guess was the answer (the 6th included), Lost after 6 accepted guesses none
\* of which was the answer.
C5_RoundEndsOnce ==
    /\ attempts <= MAX_ATTEMPTS
    /\ pc = "guess" => (outcomes = << >> /\ ~matched /\ attempts < MAX_ATTEMPTS)
    /\ pc = "again" =>
          /\ Len(outcomes) = 1
          /\ attempts \in 1..MAX_ATTEMPTS
          /\ out.kind = "feedback"
          /\ outcomes[1] = "Won" <=> (matched /\ out.guess = answer)
          /\ outcomes[1] = "Lost" <=> (~matched /\ attempts = MAX_ATTEMPTS)
    /\ outcomes # << >> => pc # "guess"

C5_Witness ==
    /\ pc = "again" /\ attempts = MAX_ATTEMPTS /\ outcomes = << "Won" >>

\* C6: a rejected guess - not in Acceptable, wrong length included, or against
\* hard mode - leaves the attempts of the round, the pinned positions, the
\* present letters and the statistics as they were, and the round goes on
\* reading guesses.
C6_RejectionChangesNothing ==
    [][(pc = "guess" /\ (out'.guess \notin ACCEPTABLE \/ out'.kind \in Rejections))
          => /\ out'.kind \in Rejections
             /\ UNCHANGED << attempts, correct_positions, present_letters,
                             game_state, pc, answer, hard_mode >>]_vars

C6_Witness ==
    /\ pc = "guess" /\ out.kind = "invalid guess" /\ out.guess = CAT
    /\ attempts > 0 /\ hard_mode /\ present_letters # {}

\* C7: successful_games <= total_rounds in every state of a session, also of
\* one whose statistics were loaded from a state file.
C7_SuccessfulAtMostRounds ==
    game_state.successful_games <= game_state.total_rounds

\* C8 as stated: in every state total_rounds is its loaded value plus the
\* number of confirmed answers.
C8_CountsOnlyConfirmed ==
    game_state.total_rounds = loaded.total_rounds + confirmed

\* C8: total_rounds is its loaded value plus the number of confirmed answers,
\* except while the answer of a round is being chosen, where it already counts
\* that round.
C8_CountsConfirmedOnceChosen ==
    game_state.total_rounds =
        loaded.total_rounds + confirmed + (IF pc = "answer" THEN 1 ELSE 0)

C8_Witness ==
    /\ pc = "loop" /\ out.kind = "invalid answer" /\ confirmed >= 1
    /\ game_state.total_rounds = loaded.total_rounds + confirmed

\* The place of word w in the listing, 0 when it is not listed.
Place(w) ==
    IF \E i \in 1..Len(st_listing) : st_listing[i][1] = w
    THEN CHOOSE i \in 1..Len(st_listing) : st_listing[i][1] = w
    ELSE 0

\* C9 as stated: with CRANE 3, BRAVE 3, SNAKE 1 the listing ranks CRANE before
\* BRAVE before SNAKE.
C9_CraneBeforeBrave ==
    (st_done /\ st_used_words = TallyExample) =>
        /\ Place(CRANE) > 0 /\ Place(BRAVE) > 0 /\ Place(SNAKE) > 0
        /\ Place(CRANE) < Place(BRAVE) /\ Place(BRAVE) < Place(SNAKE)

\* C9: with CRANE 3, BRAVE 3, SNAKE 1 the listing ranks BRAVE before CRANE
\* before SNAKE, the tie going to the word that is first in the alphabet.
C9_BraveBeforeCrane ==
    (st_done /\ st_used_words = TallyExample) =>
        st_listing = << << BRAVE, 3 >>, << CRANE, 3 >>, << SNAKE, 1 >> >>

C9_Witness ==
    /\ st_done /\ st_used_words = TallyExample
    /\ st_iter = << CRANE, BRAVE, SNAKE >>
    /\ Place(BRAVE) = 1 /\ Place(CRANE) = 2 /\ Place(SNAKE) = 3

\* Word a comes before word b in the alphabet.
LexLess(a, b) ==
    \/ \E k \in 1..Len(a) :
          /\ k <= Len(b) /\ Ord(a[k]) < Ord(b[k])
          /\ \A j \in 1..(k - 1) : a[j] = b[j]
    \/ Len(a) < Len(b) /\ \A j \in 1..Len(a) : a[j] = b[j]

\* Entry e ranks before entry f: a higher count, or the same count and a word
\* earlier in the alphabet.
RanksBefore(e, f) == e[2] > f[2] \/ (e[2] = f[2] /\ LexLess(e[1], f[1]))

\* C10: print_stats lists at most 5 entries of used_words, each with its
\* count, by descending count and, at equal counts, ascending word; every
\* entry left out ranks after every entry listed.  Whatever the iteration
\* order of the map, the listing is thus the same.
C10_ListingOrdered ==
    st_done =>
        /\ Len(st_listing) <= TOP_WORDS
        /\ Len(st_listing) = Cardinality(DOMAIN st_used_words)
              \/ Len(st_listing) = TOP_WORDS
        /\ \A i \in 1..Len(st_listing) :
              /\ st_listing[i][1] \in DOMAIN st_used_words
              /\ st_listing[i][2] = st_used_words[st_listing[i][1]]
        /\ \A i, j \in 1..Len(st_listing) :
              i < j => RanksBefore(st_listing[i], st_listing[j])
        /\ \A w \in DOMAIN st_used_words :
              Place(w) = 0 =>
                  \A i \in 1..Len(st_listing) :
                      /\ st_used_words[w] <= st_listing[i][2]
                      /\ RanksBefore(st_listing[i], << w, st_used_words[w] >>)

C10_Witness ==
    /\ st_done
    /\ Cardinality(DOMAIN st_used_words) = TOP_WORDS + 1
    /\ Len(st_listing) = TOP_WORDS
    /\ st_listing[1][2] = st_listing[2][2]
    /\ st_listing[1][2] > st_listing[TOP_WORDS][2]
    /\ st_iter[1] # st_listing[1][1]
    /\ \E w \in DOMAIN st_used_words :
          Place(w) = 0 /\ st_used_words[w] = st_listing[TOP_WORDS][2]

\* The state file the session was started with was missing or unparsable (the
\* file is only written when the session ends).
StartedWithoutFile == pc # "done" /\ file.kind \in { "missing", "corrupt" }

\* C11: with a missing or unparsable state file the session is not aborted: it
\* starts from total_rounds = 0, successful_games = 0, attempts = 0 and an
\* empty used_words, at the head of the loop, and goes on to its first round.
C11_FreshOnBadFile ==
    StartedWithoutFile =>
        /\ loaded.total_rounds = 0 /\ loaded.successful_games = 0
        /\ loaded.attempts = 0 /\ DOMAIN loaded.used_words = {}
        /\ pc \in { "loop", "answer", "difficulty", "guess", "again" }
        /\ (pc = "loop" /\ confirmed = 0) => game_state = loaded
        /\ game_state.total_rounds = confirmed + (IF pc = "answer" THEN 1 ELSE 0)

C11_Witness ==
    /\ StartedWithoutFile /\ file.kind = "corrupt"
    /\ pc = "guess" /\ confirmed = 1 /\ game_state.total_rounds = 1

\* C12: provide_feedback aborts whenever guess and answer differ in length.
C12_FailsFast ==
    (fb_done /\ Len(fb_guess) # Len(fb_answer)) => fb_result.panicked

\* C13: in a hard-mode round the present-letter set is made of the letters
\* that accepted guesses of the round had scored Present, and of no other.
C13_PresentSetFromVerdicts ==
    (hard_mode /\ pc = "guess") => present_letters = seen_present

\* C14: from the first guess of a round to its end a pinned slot keeps its
\* letter and the present-letter set keeps its letters (only the start of a
\* round, after the hard-mode prompt, makes them anew).
C14_ConstraintsAccumulate ==
    [][pc # "difficulty" =>
          /\ \A i \in 1..WORD_LEN :
                correct_positions[i] # "_" => correct_positions'[i] = correct_positions[i]
          /\ present_letters \subseteq present_letters']_vars

C14_Witness ==
    /\ pc = "guess" /\ hard_mode /\ attempts = 2
    /\ out.kind = "feedback"
    /\ \E i \in 1..WORD_LEN : correct_positions[i] # "_"
    /\ \E x \in present_letters : \A i \in 1..WORD_LEN :
          out.guess[i] = x => Verdicts(out.guess, answer)[i] = "G"

\* C15: at the first guess of every round all slots are unknown and the
\* present-letter set is empty, whatever the round before had left, so that no
\* word of Acceptable is rejected by hard mode there.
C15_ConstraintsReset ==
    (pc = "guess" /\ attempts = 0) =>
        /\ correct_positions = Unknown
        /\ present_letters = {}
        /\ out.kind # "invalid hard mode guess"
        /\ \A g \in ACCEPTABLE : ~breaks_hard_mode(g)

C15_Witness ==
    /\ pc = "guess" /\ attempts = 0 /\ hard_mode /\ carried /\ confirmed >= 2
    /\ correct_positions = Unknown /\ present_letters = {}
    /\ out.kind = "invalid guess"

\* How often the statistics count the word w.
Uses(used_words, w) == IF w \in DOMAIN used_words THEN used_words[w] ELSE 0

\* C16: a guess in Acceptable that passes hard mode, and no other, is scored;
\* the step that scores it adds exactly 1 to the attempts of the round, to the
\* attempts of the session and to the count of that word and leaves every
\* other count and total_rounds as they were; successful_games grows by 1 if
\* the guess is the answer, and then the round is over, and is unchanged if not.
C16_AcceptedGuessCounted ==
    [][(pc = "guess" /\ out'.kind = "feedback") =>
          /\ out'.guess \in ACCEPTABLE
          /\ hard_mode =>
                is_valid_hard_mode_guess(out'.guess, correct_positions, present_letters)
          /\ attempts' = attempts + 1
          /\ game_state'.attempts = game_state.attempts + 1
          /\ DOMAIN game_state'.used_words = DOMAIN game_state.used_words \cup { out'.guess }
          /\ \A w \in DOMAIN game_state'.used_words :
                game_state'.used_words[w] =
                    Uses(game_state.used_words, w) + (IF w = out'.guess THEN 1 ELSE 0)
          /\ game_state'.successful_games =
                game_state.successful_games + (IF out'.guess = answer THEN 1 ELSE 0)
          /\ game_state'.total_rounds = game_state.total_rounds
          /\ out'.guess = answer => (pc' = "again" /\ ~matched /\ matched')]_vars

C16_Witness ==
    /\ pc = "again" /\ out.kind = "feedback" /\ ~matched
    /\ attempts = MAX_ATTEMPTS
    /\ game_state.attempts = loaded.attempts + MAX_ATTEMPTS
    /\ game_state.successful_games = loaded.successful_games
    /\ Uses(game_state.used_words, out.guess) >= 2

\* C17: in a hard-mode round every pinned slot holds the letter of the answer
\* at that slot and every present letter is a letter of the answer, so that the
\* answer is a guess that is acceptable and passes is_valid_hard_mode_guess.
C17_AnswerStaysValid ==
    (hard_mode /\ pc \in { "guess", "again" }) =>
        /\ \A i \in 1..WORD_LEN :
              correct_positions[i] # "_" => correct_positions[i] = answer[i]
        /\ present_letters \subseteq Range(answer)
        /\ is_valid_hard_mode_guess(answer, correct_positions, present_letters)
        /\ ~unacceptable(answer) /\ ~breaks_hard_mode(answer)

C17_Witness ==
    /\ hard_mode /\ pc = "guess" /\ attempts >= 2
    /\ Cardinality({ i \in 1..WORD_LEN : correct_positions[i] # "_" }) >= 3
    /\ Cardinality(present_letters) >= 2
    /\ \E g \in ACCEPTABLE : breaks_hard_mode(g)

RECURSIVE SumCounts(_)
SumCounts(used_words) ==
    IF DOMAIN used_words = {} THEN 0
    ELSE LET w == CHOOSE x \in DOMAIN used_words : TRUE
         IN  used_words[w] +
             SumCounts([x \in DOMAIN used_words \ { w } |-> used_words[x]])

\* C18: in a session that began with empty statistics the attempts of the
\* session are the sum of the counts of used_words and are at most
\* MAX_ATTEMPTS for each round counted.
C18_AttemptsAreTallied ==
    loaded = GameState_new =>
        /\ game_state.attempts = SumCounts(game_state.used_words)
        /\ game_state.attempts <= MAX_ATTEMPTS * game_state.total_rounds

C18_Witness ==
    /\ loaded = GameState_new /\ pc = "again"
    /\ game_state.total_rounds = 1
    /\ game_state.attempts = MAX_ATTEMPTS
    /\ Cardinality(DOMAIN game_state.used_words) = 3
    /\ SumCounts(game_state.used_words) = MAX_ATTEMPTS

\* The verdicts a terminal shows for a feedback string: a letter in green is
\* G, in yellow Y, in red R; a placeholder left in the string is no verdict.
RECURSIVE Rendered(_)
Rendered(s) ==
    IF Len(s) = 0 THEN << >>
    ELSE IF s[1] = ESC /\ Len(s) >= Len(styled("_", "0"))
    THEN << (IF s[4] = "2" THEN "G" ELSE IF s[4] = "3" THEN "Y" ELSE "R") >>
            \o Rendered(SubSeq(s, Len(styled("_", "0")) + 1, Len(s)))
    ELSE << "_" >> \o Rendered(SubSeq(s, 2, Len(s)))

\* C19: for a guess and an answer of 5 letters the verdicts rendered in colour
\* when is_tty is true are, position by position, the marks G, Y and R that
\* provide_feedback returns when is_tty is false, and no position is left
\* without a verdict.
C19_TtyShowsSameVerdicts ==
    (fb_done /\ fb_tty /\ Len(fb_guess) = WORD_LEN /\ Len(fb_answer) = WORD_LEN) =>
        /\ ~fb_result.panicked
        /\ Rendered(fb_result.feedback) =
              provide_feedback(fb_guess, fb_answer, FALSE).feedback
        /\ \A i \in 1..Len(Rendered(fb_result.feedback)) :
              Rendered(fb_result.feedback)[i] # "_"

\* C20: with a program that keeps running and a player who answers, every
\* session prints its statistics and saves them at last, in each of the three
\* answer modes.
C20_SessionEnds == <>(pc = "done")

====
